---- MODULE Spec2Model ----
(***************************************************************************)
(* Push-notification dispatch of LampaTrack: the edge function that sends  *)
(* a web-push message to every subscription of a user when the status of   *)
(* a report ("signalement") changes, the push_subscriptions table it reads *)
(* and prunes, and the browser-side subscribe / unsubscribe hook that      *)
(* writes the table.                                                       *)
(***************************************************************************)
EXTENDS Integers, Sequences, FiniteSets, TLC

(* ---------------------------- bounds ----------------------------------- *)
\* browser operations (subscribe / unsubscribe) that may interleave with
\* one invocation of the edge function
MaxEnvOps == 1
\* rows the table holds at most
MaxRows == 3

UserSeq     == <<"u1", "u2">>
EndpointSeq == <<"e1", "e2", "e3">>
KeySeq      == <<"k1", "k2">>

Users     == {UserSeq[n] : n \in 1..Len(UserSeq)}
Endpoints == {EndpointSeq[n] : n \in 1..Len(EndpointSeq)}
\* the key material (p256dh, auth) of one browser subscription
Keys      == {KeySeq[n] : n \in 1..Len(KeySeq)}

\* a field that is not in the JSON body (undefined after destructuring)
Absent == "absent"

SignalementIds == {Absent, "s1"}
UserIds        == {Absent, ""} \cup Users
Statuses       == {Absent, "approved", "rejected", "pending"}

Request(m, b, sid, uid, st) ==
  [method |-> m, body |-> b, signalement_id |-> sid, user_id |-> uid,
   new_status |-> st]

\* a CORS preflight, a POST whose body is not JSON, and the POSTs of a JSON
\* object with any of the three fields present or not
Requests ==
  {Request("OPTIONS", "empty", Absent, Absent, Absent),
   Request("POST", "malformed", Absent, Absent, Absent)}
    \cup {Request("POST", "json", sid, uid, st) :
            sid \in SignalementIds, uid \in UserIds, st \in Statuses}

\* what webpush.sendNotification can do: resolve, reject with a WebPushError
\* carrying the push service's status code, reject with an error that has no
\* statusCode (socket timeout, network error), or never settle
\* (statusCode 0 stands for an error object without a statusCode property;
\* "timeout" is such an error).
StatusCodes == {404, 410, 500}
Outcomes ==
  {[kind |-> "ok", statusCode |-> 0], [kind |-> "hang", statusCode |-> 0],
   [kind |-> "timeout", statusCode |-> 0]}
    \cup {[kind |-> "http", statusCode |-> c] : c \in StatusCodes}

VARIABLES
  store,                \* rows of public.push_subscriptions
  env,                  \* Deno.env: which of the VAPID variables are set
  pc,                   \* position of the edge function invocation
  req,                  \* the inbound request
  subscriptions,        \* data of the select, in the order it was returned
  idx,                  \* position of the for..of loop in subscriptions
  sent,                 \* let sent
  failedEndpoints,      \* const failedEndpoints: string[]
  notificationPayload,  \* the payload built once per request
  attempts,             \* calls of webpush.sendNotification, with outcome
  resp,                 \* the Response returned
  storeOps,             \* store accesses of this invocation, in order
  removed,              \* rows this invocation's delete removed
  envOps,               \* browser operations since the request arrived
  subError,             \* error of the select
  cancelled,            \* the caller has aborted the request
  upserted              \* the upsert that has just run between two invocations

vars == <<store, env, pc, req, subscriptions, idx, sent, failedEndpoints,
          notificationPayload, attempts, resp, storeOps, removed, envOps,
          subError, cancelled, upserted>>

local == <<req, subscriptions, idx, sent, failedEndpoints,
           notificationPayload, attempts, resp, storeOps, removed, subError,
           cancelled>>

(* ------------------------- the table ----------------------------------- *)
Row(u, e, k) == [user_id |-> u, endpoint |-> e, keys |-> k]

Rows == {Row(u, e, k) : u \in Users, e \in Endpoints, k \in Keys}

\* UNIQUE(user_id, endpoint)
UniqueUserEndpoint(t) ==
  \A r1, r2 \in t :
    (r1.user_id = r2.user_id /\ r1.endpoint = r2.endpoint) => r1 = r2

\* the select without its .eq filter
SelectByUser_NoFilter(t, u) == t

\* .select("*").eq("user_id", u)
SelectByUser(t, u) == {r \in t : r.user_id = u}

\* the delete without its .in filter
DeleteIn_NoFilter(t, eps) == {}

\* the delete with .eq on the first failed endpoint
DeleteIn_FirstOnly(t, eps) == {r \in t : r.endpoint # eps[1]}

\* the delete with the filter negated
DeleteIn_Inverted(t, eps) ==
  {r \in t : \E n \in 1..Len(eps) : r.endpoint = eps[n]}

\* .delete().in("endpoint", eps)
DeleteIn(t, eps) == {r \in t : \A n \in 1..Len(eps) : r.endpoint # eps[n]}

\* a plain insert: no conflict target, no unique constraint
Upsert_Insert(t, row) == t \cup {row}

\* the upsert with ignoreDuplicates: a row in conflict is left as it is
Upsert_IgnoreDuplicates(t, row) ==
  IF \E r \in t : r.user_id = row.user_id /\ r.endpoint = row.endpoint
    THEN t ELSE t \cup {row}

\* .upsert(row, { onConflict: 'user_id,endpoint' })
Upsert(t, row) ==
  {r \in t : ~(r.user_id = row.user_id /\ r.endpoint = row.endpoint)}
    \cup {row}

\* the row an upsert wrote and the rows it found for the same user and
\* endpoint
Upserted(row, found) == [row |-> row, replaced |-> found]

NoUpsert == Upserted(Row("none", "none", "none"), {})

\* .delete().eq('user_id', u).eq('endpoint', e)
DeleteEq(t, u, e) == {r \in t : ~(r.user_id = u /\ r.endpoint = e)}

\* The data of a select without ORDER BY: the rows in the order the table
\* yields them.  Endpoint names are interchangeable in every operation, so
\* the rows are listed by endpoint; any other order is a renaming of this one.
RowSeq ==
  [n \in 1..(Len(EndpointSeq) * Len(KeySeq) * Len(UserSeq)) |->
     Row(UserSeq[((n - 1) % Len(UserSeq)) + 1],
         EndpointSeq[((n - 1) \div (Len(KeySeq) * Len(UserSeq))) + 1],
         KeySeq[(((n - 1) \div Len(UserSeq)) % Len(KeySeq)) + 1])]

Listing(S) == SelectSeq(RowSeq, LAMBDA r : r \in S)

(* ------------------------ the edge function ---------------------------- *)
\* JavaScript truthiness of a request field
Truthy(x) == x \notin {Absent, ""}

None == "none"

\* a Response: its status and the JSON body, given by the keys it has and
\* their values (a key that is not in fields has no value in the body)
Response(status, fields, error, sentN, failedN, message) ==
  [status |-> status, fields |-> fields, error |-> error, sent |-> sentN,
   failed |-> failedN, message |-> message]

NoResponse == Response(0, {}, None, 0, 0, None)

\* lines 11-13, 24-27, 35-38, 107-110
Preflight == Response(200, {}, None, 0, 0, None)
ErrorResponse(status, error) == Response(status, {"error"}, error, 0, 0, None)

NoRequest == Request(None, None, Absent, Absent, Absent)

NoPayload == [title |-> None, tag |-> None, status |-> None]

\* lines 57-67
BuildPayload(signalement_id, new_status) ==
  LET isApproved == new_status = "approved" IN
  [title  |-> IF isApproved THEN "Signalement approuve"
                            ELSE "Signalement rejete",
   tag    |-> <<"signalement-", signalement_id>>,
   status |-> new_status]

\* lines 82-84: the awaited promise rejected and the catch block runs
Throws(outcome) == outcome.kind \notin {"ok", "hang"}

\* the catch block prunes on any status code
IsExpired_AnyStatus(err) == err.statusCode # 0

\* the catch block prunes on 410 only
IsExpired_Only410(err) == err.statusCode = 410

\* lines 86-87: the catch block's test on the error's statusCode
IsExpired(err) == err.statusCode = 410 \/ err.statusCode = 404

\* the presence test without new_status
MissingFields_NoStatus(r) ==
  ~Truthy(r.signalement_id) \/ ~Truthy(r.user_id)

\* line 23
MissingFields(r) ==
  ~Truthy(r.signalement_id) \/ ~Truthy(r.user_id) \/ ~Truthy(r.new_status)

\* the test on the public key only
VapidMissing_PublicOnly(e) == ~e["VAPID_PUBLIC_KEY"]

\* line 34
VapidMissing(e) == ~e["VAPID_PUBLIC_KEY"] \/ ~e["VAPID_PRIVATE_KEY"]

\* sent++ placed before the await
Counted_Always(outcome) == TRUE

\* lines 82-83: sent++ runs only after the awaited promise resolved
Counted(outcome) == outcome.kind = "ok"

\* the loop left on the first error
Advance_AbortOnError(i, outcome) ==
  IF outcome.kind \notin {"ok", "hang"} THEN Len(subscriptions) + 1 ELSE i + 1

\* line 72: for..of moves to the next subscription, whatever the outcome
Advance(i, outcome) == i + 1

\* "failed" reported as every subscription that was not sent to
Aggregate_FailedIsRest(sentN, failed) ==
  Response(200, {"sent", "failed"}, None, sentN,
           Len(subscriptions) - sentN, None)

\* the delete issued without the test on failedEndpoints.length
NeedsDelete_Always(failed) == TRUE

\* line 94
NeedsDelete(failed) == Len(failed) > 0

\* lines 101-104
Aggregate(sentN, failed) ==
  Response(200, {"sent", "failed"}, None, sentN, Len(failed), None)

Init ==
  /\ store = {}
  /\ env \in [{"VAPID_PUBLIC_KEY", "VAPID_PRIVATE_KEY"} -> BOOLEAN]
  /\ pc = "idle"
  /\ req = NoRequest
  /\ subscriptions = <<>>
  /\ idx = 0
  /\ sent = 0
  /\ failedEndpoints = <<>>
  /\ notificationPayload = NoPayload
  /\ attempts = <<>>
  /\ resp = NoResponse
  /\ storeOps = <<>>
  /\ removed = {}
  /\ envOps = 0
  /\ subError = FALSE
  /\ cancelled = FALSE
  /\ upserted = NoUpsert

Finish(r) ==
  /\ pc' = "done"
  /\ resp' = r

\* lines 10-47: a request arrives; everything up to the await of the select
Receive ==
  /\ pc = "idle"
  /\ \E r \in Requests :
       /\ req' = r
       /\ IF r.method = "OPTIONS"
            THEN Finish(Preflight)
          ELSE IF r.body = "malformed"
            THEN Finish(ErrorResponse(500, "SyntaxError"))
          ELSE IF MissingFields(r)
            THEN Finish(ErrorResponse(400, "Missing fields"))
          ELSE IF VapidMissing(env)
            THEN Finish(ErrorResponse(500, "VAPID keys not configured"))
          ELSE /\ pc' = "listing"
               /\ resp' = NoResponse
  /\ upserted' = NoUpsert
  /\ UNCHANGED <<store, env, subscriptions, idx, sent, failedEndpoints,
                 notificationPayload, attempts, storeOps, removed, envOps,
                 subError, cancelled>>

\* lines 50-53
NoSubscriptions ==
  Response(200, {"sent", "message"}, None, 0, 0, "No subscriptions found")

\* the error of the select thrown to the outer catch
OnSubError_Throw == ErrorResponse(500, "subError")

\* lines 49-53: a failed select is answered like an empty one
OnSubError == NoSubscriptions

\* lines 44-70: the select settles; the payload is built and the loop entered
List ==
  /\ pc = "listing"
  /\ storeOps' = Append(storeOps, "select")
  /\ \/ \* subError (data is null)
        /\ subError' = TRUE
        /\ Finish(OnSubError)
        /\ UNCHANGED <<subscriptions, idx, notificationPayload>>
     \/ LET data == Listing(SelectByUser(store, req.user_id)) IN
          /\ subError' = FALSE
          /\ subscriptions' = data
          /\ IF Len(data) = 0
               THEN /\ Finish(NoSubscriptions)
                    /\ UNCHANGED <<idx, notificationPayload>>
               ELSE /\ notificationPayload' =
                         BuildPayload(req.signalement_id, req.new_status)
                    /\ idx' = 1
                    /\ pc' = "sending"
                    /\ resp' = NoResponse
  /\ upserted' = NoUpsert
  /\ UNCHANGED <<store, env, req, sent, failedEndpoints, attempts, removed,
                 envOps, cancelled>>

\* the awaited sendNotification of the last attempt never settles
Hung == attempts # <<>> /\ attempts[Len(attempts)].outcome.kind = "hang"

\* lines 72-91 and, after the last subscription, lines 94 and 101-104:
\* one iteration of the loop, from the call of sendNotification to the
\* next await
Send ==
  /\ pc = "sending"
  /\ ~Hung
  /\ idx <= Len(subscriptions)
  /\ \E outcome \in Outcomes :
       LET sub       == subscriptions[idx]
           newSent   == IF Counted(outcome) THEN sent + 1 ELSE sent
           newFailed == IF Throws(outcome) /\ IsExpired(outcome)
                          THEN Append(failedEndpoints, sub.endpoint)
                          ELSE failedEndpoints
       IN /\ attempts' = Append(attempts,
                                [endpoint |-> sub.endpoint, keys |-> sub.keys,
                                 payload |-> notificationPayload,
                                 outcome |-> outcome])
          /\ IF outcome.kind = "hang"
               THEN UNCHANGED <<pc, resp, idx, sent, failedEndpoints>>
               ELSE /\ sent' = newSent
                    /\ failedEndpoints' = newFailed
                    /\ idx' = Advance(idx, outcome)
                    /\ IF Advance(idx, outcome) <= Len(subscriptions)
                         THEN UNCHANGED <<pc, resp>>
                       ELSE IF NeedsDelete(newFailed)
                         THEN /\ pc' = "deleting"
                              /\ resp' = NoResponse
                       ELSE Finish(Aggregate(newSent, newFailed))
  /\ upserted' = NoUpsert
  /\ UNCHANGED <<store, env, req, subscriptions, notificationPayload,
                 storeOps, removed, envOps, subError, cancelled>>

\* lines 94-104: the delete settles and the aggregate is returned
Delete ==
  /\ pc = "deleting"
  /\ store' = DeleteIn(store, failedEndpoints)
  /\ removed' = store \ store'
  /\ storeOps' = Append(storeOps, "delete")
  /\ Finish(Aggregate(sent, failedEndpoints))
  /\ upserted' = NoUpsert
  /\ UNCHANGED <<env, req, subscriptions, idx, sent, failedEndpoints,
                 notificationPayload, attempts, envOps, subError, cancelled>>

\* line 112: the response has been returned and the invocation is over
Return ==
  /\ pc = "done"
  /\ pc' = "idle"
  /\ req' = NoRequest
  /\ subscriptions' = <<>>
  /\ idx' = 0
  /\ sent' = 0
  /\ failedEndpoints' = <<>>
  /\ notificationPayload' = NoPayload
  /\ attempts' = <<>>
  /\ resp' = NoResponse
  /\ storeOps' = <<>>
  /\ removed' = {}
  /\ envOps' = 0
  /\ subError' = FALSE
  /\ cancelled' = FALSE
  /\ upserted' = NoUpsert
  /\ UNCHANGED <<store, env>>

(* --------------------------- the browser ------------------------------- *)
\* a browser operation runs between two invocations of the edge function or,
\* up to MaxEnvOps times, while one awaits the table.  The loop between the
\* select and the delete neither reads nor writes the table, so an operation
\* that runs during the loop acts as one that runs while the delete is
\* awaited or, without a delete, after the response.
EnvStep ==
  /\ pc = "idle" \/ (pc \in {"listing", "deleting"} /\ envOps < MaxEnvOps)
  /\ envOps' = IF pc = "idle" THEN 0 ELSE envOps + 1
  /\ UNCHANGED <<env, pc, local>>

\* usePushNotifications.subscribe: the upsert of the browser's subscription
\* (the same upsert whenever it runs; what it was given and what it found is
\* kept for the upserts that run between two invocations)
Subscribe ==
  /\ EnvStep
  /\ \E u \in Users, e \in Endpoints, k \in Keys :
       /\ Cardinality(Upsert(store, Row(u, e, k))) <= MaxRows
       /\ store' = Upsert(store, Row(u, e, k))
       /\ upserted' =
            IF pc = "idle"
              THEN Upserted(Row(u, e, k),
                            {r \in store : r.user_id = u /\ r.endpoint = e})
              ELSE NoUpsert

\* usePushNotifications.unsubscribe: the delete of the browser's subscription
Unsubscribe ==
  /\ EnvStep
  /\ \E u \in Users, e \in Endpoints :
       store' = DeleteEq(store, u, e)
  /\ upserted' = NoUpsert

\* the caller aborts the request while the loop is running; the handler
\* never reads req.signal
Cancel ==
  /\ pc = "sending"
  /\ ~cancelled
  /\ cancelled' = TRUE
  /\ UNCHANGED <<store, env, pc, req, subscriptions, idx, sent,
                 failedEndpoints, notificationPayload, attempts, resp,
                 storeOps, removed, envOps, subError, upserted>>

Next ==
  Receive \/ List \/ Send \/ Delete \/ Return \/ Subscribe \/ Unsubscribe

Spec == Init /\ [][Next]_vars

\* the same, with callers that may abort their request
CancelSpec == Init /\ [][Next \/ Cancel]_vars

\* The runtime resumes the handler whenever the promise it awaits settles, and
\* ends the invocation once the response is returned.
FairSpec ==
  /\ Init /\ [][Next]_vars
  /\ WF_vars(List) /\ WF_vars(Send) /\ WF_vars(Delete) /\ WF_vars(Return)

TypeOK ==
  /\ store \subseteq Rows
  /\ pc \in {"idle", "listing", "sending", "deleting", "done"}
  /\ sent \in 0..Len(subscriptions)
  /\ envOps \in 0..MaxEnvOps

(* ------------------------ vocabulary of the properties ----------------- *)
\* a POST of a JSON object that has all three fields
ValidRequest ==
  /\ req.method = "POST"
  /\ req.body = "json"
  /\ req.signalement_id = "s1"
  /\ req.user_id \in Users
  /\ req.new_status \in {"approved", "rejected", "pending"}

VapidConfigured == env["VAPID_PUBLIC_KEY"] /\ env["VAPID_PRIVATE_KEY"]

\* the rows a listing of user u would return
RowsOf(u) == {r \in store : r.user_id = u}

\* the endpoints passed to the prune delete
PruneSet == {failedEndpoints[n] : n \in 1..Len(failedEndpoints)}

Occurrences(seq, x) == Cardinality({n \in 1..Len(seq) : seq[n] = x})

\* the row of the k-th delivery attempt, as it was listed
AttemptRow(k) == Row(req.user_id, attempts[k].endpoint, attempts[k].keys)

Delivered(k) == attempts[k].outcome.kind = "ok"

PermanentFailure(k) ==
  /\ attempts[k].outcome.kind = "http"
  /\ attempts[k].outcome.statusCode \in {404, 410}

TransientFailure(k) ==
  \/ attempts[k].outcome.kind = "timeout"
  \/ /\ attempts[k].outcome.kind = "http"
     /\ attempts[k].outcome.statusCode \notin {404, 410}

\* no browser operation ran while this invocation was in progress
Undisturbed == envOps = 0

(* ------------------------------ C1 ------------------------------------- *)
\* C1: when the select of a valid request (VAPID keys configured) settles
\* and the user has no row in the table, the handler returns at once with
\* HTTP 200, sent = 0 and no "failed" count, has made no delivery attempt,
\* has collected and removed nothing, and leaves the table as it was.
C1_NoSubscriptions ==
  [][(/\ pc = "listing" /\ pc' # "listing"
      /\ ValidRequest /\ VapidConfigured
      /\ RowsOf(req.user_id) = {})
       => /\ pc' = "done"
          /\ resp'.status = 200
          /\ resp'.fields = {"sent", "message"}
          /\ resp'.sent = 0
          /\ resp'.message = "No subscriptions found"
          /\ attempts' = <<>>
          /\ failedEndpoints' = <<>>
          /\ removed' = {}
          /\ storeOps' = <<"select">>
          /\ store' = store]_vars

C1_Witness ==
  /\ pc = "done" /\ ValidRequest /\ VapidConfigured
  /\ RowsOf(req.user_id) = {} /\ store # {}
  /\ storeOps = <<"select">>
  /\ resp.status = 200 /\ resp.sent = 0

(* ------------------------------ C2 ------------------------------------- *)
\* C2: a POST whose JSON body lacks signalement_id, user_id or new_status is
\* answered 400 "Missing fields" without any access to the table and
\* without any delivery attempt.
C2_MissingFields ==
  (/\ req.method = "POST" /\ req.body = "json"
   /\ \/ req.signalement_id = Absent
      \/ req.user_id = Absent
      \/ req.new_status = Absent)
    => /\ pc = "done"
       /\ resp.status = 400
       /\ resp.fields = {"error"}
       /\ resp.error = "Missing fields"
       /\ storeOps = <<>>
       /\ attempts = <<>>
       /\ removed = {}

C2_Witness ==
  /\ pc = "done" /\ resp.status = 400 /\ store # {}
  /\ req.signalement_id = "s1" /\ req.user_id \in Users
  /\ req.new_status = Absent
  /\ RowsOf(req.user_id) # {}

(* ------------------------------ C3 ------------------------------------- *)
\* C3: for a request whose new_status is neither "approved" nor "rejected"
\* no delivery attempt is made (no payload reaches any subscription).
C3_UnknownStatusNotSent ==
  (req.new_status \notin {Absent, "approved", "rejected"}) => attempts = <<>>

(* ------------------------------ C4 ------------------------------------- *)
\* C4: a dispatch in which one delivery attempt never settles while other
\* listed subscriptions are still to be attempted nevertheless returns a
\* response, every listed subscription having been attempted.
C4_HangDoesNotBlock ==
  (Hung /\ Len(attempts) < Len(subscriptions))
    ~> (pc = "done" /\ Len(attempts) = Len(subscriptions))

(* ------------------------------ C5 ------------------------------------- *)
\* C5: the endpoint of a delivered attempt is never in the prune set, its row
\* is never among the rows the dispatch removes, and when the dispatch
\* returns (no browser operation having run meanwhile) the row is in the
\* table as it was listed.
C5_DeliveredNeverPruned ==
  \A k \in 1..Len(attempts) :
    Delivered(k) =>
      /\ attempts[k].endpoint \notin PruneSet
      /\ AttemptRow(k) \notin removed
      /\ (pc = "done" /\ Undisturbed) => AttemptRow(k) \in store

C5_Witness ==
  /\ pc = "done" /\ removed # {} /\ Undisturbed
  /\ \E k \in 1..Len(attempts) : Delivered(k) /\ AttemptRow(k) \in store

C7_TransientKept ==
  \A k \in 1..Len(attempts) :
    TransientFailure(k) =>
      /\ Cardinality({j \in 1..Len(attempts) :
                        attempts[j].endpoint = attempts[k].endpoint}) = 1
      /\ attempts[k].endpoint \notin PruneSet
      /\ AttemptRow(k) \notin removed
      /\ (pc = "done" /\ Undisturbed) => AttemptRow(k) \in RowsOf(req.user_id)

C7_Witness ==
  /\ pc = "done" /\ removed # {} /\ Undisturbed
  /\ \E j, k \in 1..Len(attempts) :
       /\ attempts[j].outcome.kind = "timeout"
       /\ attempts[k].outcome.kind = "http"
       /\ attempts[k].outcome.statusCode = 500
       /\ AttemptRow(j) \in store /\ AttemptRow(k) \in store

(* ------------------------------ C8 ------------------------------------- *)
\* C8: a dispatch to three subscriptions of which one is delivered, one fails
\* with 410 and one times out returns sent = 1 and failed = 1; afterwards (no
\* browser operation having run meanwhile) the user's listing is exactly the
\* delivered row and the timed-out row.
C8_EndToEnd ==
  \A a, b, c \in 1..Len(attempts) :
    (/\ pc = "done" /\ Len(subscriptions) = 3
     /\ Delivered(a)
     /\ attempts[b].outcome.kind = "http"
     /\ attempts[b].outcome.statusCode = 410
     /\ attempts[c].outcome.kind = "timeout"
     /\ Undisturbed)
      => /\ resp.status = 200
         /\ resp.fields = {"sent", "failed"}
         /\ resp.sent = 1
         /\ resp.failed = 1
         /\ RowsOf(req.user_id) = {AttemptRow(a), AttemptRow(c)}

C8_Witness ==
  /\ pc = "done" /\ Len(subscriptions) = 3 /\ Len(attempts) = 3
  /\ Undisturbed
  /\ Delivered(1)
  /\ attempts[2].outcome.kind = "http" /\ attempts[2].outcome.statusCode = 410
  /\ attempts[3].outcome.kind = "timeout"
  /\ resp.sent = 1 /\ resp.failed = 1
  /\ Cardinality(RowsOf(req.user_id)) = 2

(* ------------------------------ C9 ------------------------------------- *)
\* C9: sent counts exactly the attempts that succeeded, the prune set holds
\* exactly the endpoints of the attempts that failed with 404 or 410, and
\* every other attempt (another status code, a timeout, one that never
\* settles) is neither counted nor pruned.
C9_Classification ==
  /\ sent = Cardinality({k \in 1..Len(attempts) : Delivered(k)})
  /\ PruneSet =
       {attempts[k].endpoint : k \in {j \in 1..Len(attempts) :
                                          PermanentFailure(j)}}
  /\ \A k \in 1..Len(attempts) :
       attempts[k].outcome.kind \in {"timeout", "hang"} =>
         /\ attempts[k].endpoint \notin PruneSet
         /\ sent <= Len(attempts) - 1

C9_Witness ==
  /\ Len(attempts) = 3 /\ sent = 1 /\ failedEndpoints # <<>>
  /\ \E i, j, k \in 1..Len(attempts) :
       /\ Delivered(i)
       /\ attempts[j].outcome.kind = "http"
       /\ attempts[j].outcome.statusCode = 404
       /\ attempts[k].outcome.kind = "timeout"

(* ------------------------------ C10 ------------------------------------ *)
\* C10: the attempts made are, in order, one per listed subscription; the
\* loop goes on after a failed attempt; and a dispatch that entered the loop
\* returns only after an attempt to every listed subscription, with the
\* aggregate 200 response.
C10_NoAbort ==
  /\ Len(attempts) <= Len(subscriptions)
  /\ \A k \in 1..Len(attempts) :
       /\ attempts[k].endpoint = subscriptions[k].endpoint
       /\ attempts[k].keys = subscriptions[k].keys
  /\ (pc = "sending" /\ ~Hung) =>
       (idx = Len(attempts) + 1 /\ idx <= Len(subscriptions))
  /\ (pc \in {"deleting", "done"} /\ subscriptions # <<>>) =>
       Len(attempts) = Len(subscriptions)
  /\ (pc = "done" /\ subscriptions # <<>>) =>
       (resp.status = 200 /\ resp.fields = {"sent", "failed"})

C10_Witness ==
  /\ pc = "done" /\ Len(attempts) = 3 /\ resp.status = 200
  /\ ~Delivered(1) /\ ~Delivered(2) /\ Delivered(3)

(* ------------------------------ C11 ------------------------------------ *)
\* C11: a POST with all three fields, received while VAPID_PUBLIC_KEY or
\* VAPID_PRIVATE_KEY is not set, is answered 500 "VAPID keys not configured"
\* without any access to the table and without any delivery attempt.
C11_VapidMissing ==
  (ValidRequest /\ ~VapidConfigured)
    => /\ pc = "done"
       /\ resp.status = 500
       /\ resp.fields = {"error"}
       /\ resp.error = "VAPID keys not configured"
       /\ storeOps = <<>>
       /\ attempts = <<>>
       /\ removed = {}

C11_Witness ==
  /\ pc = "done" /\ ValidRequest /\ resp.status = 500
  /\ env["VAPID_PUBLIC_KEY"] /\ ~env["VAPID_PRIVATE_KEY"]
  /\ RowsOf(req.user_id) # {}

(* ------------------------------ C12 ------------------------------------ *)
\* C12: a dispatch that listed at least one subscription returns sent = the
\* number of attempts that succeeded and failed = the number of endpoints
\* passed to the prune delete (those of the attempts that failed with 404 or
\* 410), so that sent + failed is at most the number of subscriptions listed.
C12_Counts ==
  (pc = "done" /\ Len(subscriptions) >= 1)
    => /\ resp.sent = Cardinality({k \in 1..Len(attempts) : Delivered(k)})
       /\ resp.failed = Cardinality(PruneSet)
       /\ resp.failed =
            Cardinality({k \in 1..Len(attempts) : PermanentFailure(k)})
       /\ resp.sent + resp.failed <= Len(subscriptions)

C12_Witness ==
  /\ pc = "done" /\ Len(subscriptions) = 3
  /\ resp.sent = 1 /\ resp.failed = 1
  /\ \E k \in 1..Len(attempts) : TransientFailure(k)

C14_DeleteByEndpoint ==
  [][(pc = "deleting" /\ pc' = "done")
       => /\ store' = {r \in store : r.endpoint \notin PruneSet}
          /\ removed' = {r \in store : r.endpoint \in PruneSet}
          /\ resp'.status = 200
          /\ resp'.fields = {"sent", "failed"}]_vars

\* a prune that removed a row of another user and found no row for one of
\* its endpoints
C14_Witness ==
  /\ pc = "done" /\ storeOps = <<"select", "delete">>
  /\ \E r \in removed : r.user_id # req.user_id
  /\ \E e \in PruneSet : \A r \in removed : r.endpoint # e

(* ------------------------------ C15 ------------------------------------ *)
\* C15: an invocation accesses the table at most twice, a select and then at
\* most one delete; the delete is issued only once every listed subscription
\* has had its attempt and that attempt has settled, only when the prune set
\* is not empty, and with all the endpoints that failed with 404 or 410; no
\* step of the handler other than that delete changes the table, and none
\* does while the loop is running.
C15_ReadOnceWriteOnce ==
  [][/\ storeOps' \in {<<>>, <<"select">>, <<"select", "delete">>}
     /\ (pc' = "deleting" \/ storeOps' = <<"select", "delete">>)
          => /\ failedEndpoints' # <<>>
             /\ Len(attempts') = Len(subscriptions')
             /\ \A k \in 1..Len(attempts') :
                  attempts'[k].outcome.kind # "hang"
             /\ PruneSet' =
                  {attempts'[k].endpoint :
                     k \in {j \in 1..Len(attempts') :
                              /\ attempts'[j].outcome.kind = "http"
                              /\ attempts'[j].outcome.statusCode
                                   \in {404, 410}}}
     /\ pc' = "deleting" => storeOps' = <<"select">>
     /\ storeOps' = <<"select", "delete">> => pc' = "done"
     /\ pc = "sending" => (store' = store /\ removed' = {})
     /\ (pc' # pc /\ pc # "deleting") => store' = store]_vars

C15_Witness ==
  /\ pc = "done" /\ storeOps = <<"select", "delete">>
  /\ Len(attempts) = 3 /\ Len(failedEndpoints) = 2
  /\ Cardinality(removed) = 2

(* ------------------------------ C16 ------------------------------------ *)
\* C16: once the caller has aborted the request, the handler makes no
\* further delivery attempt and records no further outcome, and it removes
\* no row other than those whose attempt had failed with 404 or 410 by then.
C16_CancelAbandons ==
  [][(cancelled /\ (pc' # pc \/ attempts' # attempts))
       => /\ attempts' = attempts
          /\ sent' = sent
          /\ failedEndpoints' = failedEndpoints
          /\ \A r \in store \ store' :
               \E k \in 1..Len(attempts) :
                 attempts[k].endpoint = r.endpoint /\ PermanentFailure(k)
    ]_vars

(* ------------------------------ C17 ------------------------------------ *)
\* C17: when the select fails, the handler returns HTTP 200 with sent = 0
\* and "No subscriptions found", the very response of a user without
\* subscriptions, having made no delivery attempt and no change to the
\* table, whatever rows the user has.
C17_SelectError ==
  subError
    => /\ pc = "done"
       /\ resp.status = 200
       /\ resp.fields = {"sent", "message"}
       /\ resp.sent = 0
       /\ resp.message = "No subscriptions found"
       /\ resp.error = None
       /\ attempts = <<>>
       /\ failedEndpoints = <<>>
       /\ removed = {}
       /\ storeOps = <<"select">>

C17_Witness ==
  /\ subError /\ pc = "done" /\ resp.status = 200
  /\ Cardinality(RowsOf(req.user_id)) >= 2

(* ------------------------------ C18 ------------------------------------ *)
\* C18: a step of the handler never adds or changes a row, and the rows it
\* removes all have an endpoint that was listed for the request's user and
\* whose attempt in this request failed with 404 or 410; every other row,
\* of any user, stays as it is.
C18_Frame ==
  [][(pc' # pc \/ attempts' # attempts)
       => /\ store' \subseteq store
          /\ \A r \in store \ store' :
               /\ \E n \in 1..Len(subscriptions) :
                    /\ subscriptions[n].endpoint = r.endpoint
                    /\ subscriptions[n].user_id = req.user_id
               /\ \E k \in 1..Len(attempts) :
                    attempts[k].endpoint = r.endpoint /\ PermanentFailure(k)
          /\ pc # "done" => removed' = removed \cup (store \ store')]_vars

\* a prune that left rows of both users in the table
C18_Witness ==
  /\ pc = "done" /\ removed # {}
  /\ \E r1, r2 \in store :
       /\ r1.user_id = req.user_id /\ r2.user_id # req.user_id
       /\ \E k \in 1..Len(attempts) : attempts[k].endpoint = r1.endpoint

====
